---- MODULE Spec2Model ----
(***************************************************************************)
(* Model of src/service6.py: class Service, the change-detection loop      *)
(* (get_Mail_On_Latest_Videos / check_for_new_videos), the processing      *)
(* pipeline (get_transcript_of_latest_video) and the notifier              *)
(* (send_email_notification).                                              *)
(*                                                                         *)
(* External collaborators (YouTube search, pytube, moviepy, whisper,       *)
(* openai, smtp, the file system) are inputs: each call's outcome is drawn *)
(* with \E from the outcomes the call can have (a value, None, or an       *)
(* exception).  An exception that no try/except of the source catches      *)
(* unwinds get_Mail_On_Latest_Videos and ends the process (pc = "crashed").*)
(***************************************************************************)
EXTENDS Integers, Sequences, FiniteSets, TLC

\* ---------------------------------------------------------------- bounds
MaxNames  == 2      \* channel names typed by the user
MaxChans  == 2      \* distinct channel ids the directory can answer
MaxVideos == 2      \* distinct video ids a channel can show as its latest
MaxCycles == 3      \* scheduled poll passes explored

Names  == 1..MaxNames
Chans  == 1..MaxChans
Videos == 1..MaxVideos

\* Python None for an id (video_id / channelId): ids are positive.
NoneId == 0
\* Python None for a text value (transcript, summary, file name).
NoneT == "<None>"

VideoFile == "video.mp4"
AudioFile == "audio.wav"

\* ------------------------------------------------------- external inputs
\* Outcome of every fallible call made by one pipeline run.
\*   fetch    pytube download succeeds               (download_video)
\*   extract  moviepy audio extraction succeeds      (extract_audio)
\*   load     whisper.load_model("base") succeeds    (transcribe_audio_file)
\*   text     transcript['text'], or NoneT when model.transcribe raises
\*   rmVideo  os.remove(video_file) succeeds
\*   rmAudio  os.remove(audio_file) succeeds
\*   summary  stripped completion text, or NoneT when the openai call raises
StageOutcomes ==
    [fetch : BOOLEAN, extract : BOOLEAN, load : BOOLEAN,
     text : {NoneT, "", "txt"}, rmVideo : BOOLEAN, rmAudio : BOOLEAN,
     summary : {NoneT, "", "sum"}]

\* Outcome of one get_latest_video call: -1 the request raises, NoneId the
\* channel has no item, otherwise the id of the latest item.
SourceRaises == -1
SourceOutcomes == {SourceRaises, NoneId} \cup Videos

\* Python truthiness of an optional string.
Truthy(s) == s # NoneT /\ s # ""

\* ------------------------------------------------------ pipeline stages
\* A stage call gives: raised (an exception left the method), ret (the
\* returned value), files (the disk after the call) and err (the method's
\* own except-branch caught an exception and printed it).
\* Variant: the download is not wrapped in try/except.
download_video_NoTry(fs, o) ==
    IF o.fetch
    THEN [raised |-> FALSE, ret |-> VideoFile, files |-> fs \cup {VideoFile},
          err |-> FALSE]
    ELSE [raised |-> TRUE, ret |-> NoneT, files |-> fs, err |-> FALSE]

download_video(fs, o) ==
    IF o.fetch
    THEN [raised |-> FALSE, ret |-> VideoFile, files |-> fs \cup {VideoFile},
          err |-> FALSE]
    ELSE [raised |-> FALSE, ret |-> NoneT, files |-> fs, err |-> TRUE]

\* Variant: the except-branch returns the file name instead of None.
extract_audio_NameOnError(fs, o) ==
    IF o.extract
    THEN [raised |-> FALSE, ret |-> AudioFile, files |-> fs \cup {AudioFile},
          err |-> FALSE]
    ELSE [raised |-> FALSE, ret |-> AudioFile, files |-> fs, err |-> TRUE]

extract_audio(fs, o) ==
    IF o.extract
    THEN [raised |-> FALSE, ret |-> AudioFile, files |-> fs \cup {AudioFile},
          err |-> FALSE]
    ELSE [raised |-> FALSE, ret |-> NoneT, files |-> fs, err |-> TRUE]

\* whisper.load_model is called before the try block: its exception leaves
\* the method.  model.transcribe is inside it.
transcribe_audio_file(fs, o) ==
    IF ~o.load
    THEN [raised |-> TRUE, ret |-> NoneT, files |-> fs, err |-> FALSE]
    ELSE [raised |-> FALSE, ret |-> o.text, files |-> fs,
          err |-> (o.text = NoneT)]

\* Variant: the except-branch returns an empty summary instead of None.
summarize_transcript_EmptyOnError(fs, o) ==
    [raised |-> FALSE, ret |-> IF o.summary = NoneT THEN "" ELSE o.summary,
     files |-> fs, err |-> (o.summary = NoneT)]

summarize_transcript(fs, o) ==
    [raised |-> FALSE, ret |-> o.summary, files |-> fs,
     err |-> (o.summary = NoneT)]

\* os.remove(name): raises when the removal fails.
os_remove(fs, name, ok) ==
    IF ok
    THEN [raised |-> FALSE, files |-> fs \ {name}]
    ELSE [raised |-> TRUE, files |-> fs]

\* A pipeline run that returned (transcript, summary).
\*   made    temporary files this run created
\*   st      stages this run invoked, in order
\*   errs    stages whose except-branch printed an error
Returned(t, s, fs, made, st, errs) ==
    [raised |-> FALSE, cause |-> "none", transcript |-> t, summary |-> s,
     files |-> fs, leftover |-> made \cap fs, stages |-> st, errors |-> errs]

\* A pipeline run that left through an uncaught exception.
Raised(c, fs, made, st, errs) ==
    [raised |-> TRUE, cause |-> c, transcript |-> NoneT, summary |-> NoneT,
     files |-> fs, leftover |-> made \cap fs, stages |-> st, errors |-> errs]

\* No pipeline run in this evaluation.
NoRun ==
    [raised |-> FALSE, cause |-> "none", transcript |-> NoneT,
     summary |-> NoneT, files |-> {}, leftover |-> {}, stages |-> << >>,
     errors |-> {}]

Errs(stage, r) == IF r.err THEN {stage} ELSE {}

get_transcript_of_latest_video(fs, o) ==
    LET d  == download_video(fs, o)
        s1 == <<"fetch">>
        e1 == Errs("fetch", d)
        m1 == IF d.ret # NoneT THEN {VideoFile} ELSE {}
    IN
    IF d.raised THEN Raised("download", d.files, m1, s1, e1)
    ELSE IF d.ret = NoneT THEN Returned(NoneT, NoneT, d.files, m1, s1, e1)
    ELSE
    LET e  == extract_audio(d.files, o)
        s2 == Append(s1, "extract")
        e2 == e1 \cup Errs("extract", e)
        m2 == m1 \cup (IF e.ret # NoneT THEN {AudioFile} ELSE {})
    IN
    IF e.raised THEN Raised("extract", e.files, m2, s2, e2)
    ELSE IF e.ret = NoneT THEN Returned(NoneT, NoneT, e.files, m2, s2, e2)
    ELSE
    LET t  == transcribe_audio_file(e.files, o)
        s3 == Append(s2, "transcribe")
        e3 == e2 \cup Errs("transcribe", t)
    IN
    IF t.raised THEN Raised("load_model", t.files, m2, s3, e3)
    ELSE
    LET rv == os_remove(t.files, d.ret, o.rmVideo) IN
    IF rv.raised THEN Raised("remove", rv.files, m2, s3, e3)
    ELSE
    LET ra == os_remove(rv.files, e.ret, o.rmAudio) IN
    IF ra.raised THEN Raised("remove", ra.files, m2, s3, e3)
    ELSE IF t.ret # NoneT
    THEN LET z == summarize_transcript(ra.files, o) IN
         IF z.raised
         THEN Raised("summarize", z.files, m2, Append(s3, "summarize"), e3)
         ELSE Returned(t.ret, z.ret, z.files, m2, Append(s3, "summarize"),
                       e3 \cup Errs("summarize", z))
    ELSE Returned(NoneT, NoneT, ra.files, m2, s3, e3)

\* Every way one call of the pipeline can go, from the files on disk.
PipelineRuns(fs) ==
    {get_transcript_of_latest_video(fs, o) : o \in StageOutcomes}

\* -------------------------------------------------------------- notifier
\* The message: title and url of the item, and the summary when truthy.
\* video_url is built from the id by get_latest_video; the title comes with
\* the same search result, so both are identified by the item id.
\* The field transcript is the transcript text the body carries: the
\* method takes video_transcript and never reads it, so the body has none.
NoBody ==
    [title |-> NoneId, url |-> NoneId, summary |-> NoneT,
     transcript |-> NoneT]

\* Variant: the smtp exchange is not wrapped in try/except.
send_email_notification_NoTry(video, transcript, summary, smtp) ==
    [raised    |-> ~smtp,
     body      |-> [title |-> video, url |-> video,
                    summary |-> IF Truthy(summary) THEN summary ELSE NoneT,
                    transcript |-> NoneT],
     delivered |-> smtp]

\* smtp: the smtp exchange succeeds; its exceptions are caught and printed,
\* so no exception leaves the method (raised).
send_email_notification(video, transcript, summary, smtp) ==
    [raised    |-> FALSE,
     body      |-> [title |-> video, url |-> video,
                    summary |-> IF Truthy(summary) THEN summary ELSE NoneT,
                    transcript |-> NoneT],
     delivered |-> smtp]

\* ------------------------------------------------------------ dedup map
\* latest_video_ids is a dict: a function whose domain is the set of keys.
\* Variant: the assignment replaces the dict by one with the new key only.
Put_Replace(m, k, v) == [x \in {k} |-> v]

\* m[k] = v
Put(m, k, v) == [x \in (DOMAIN m) \cup {k} |-> IF x = k THEN v ELSE m[x]]

EmptyMap == [x \in {} |-> NoneId]

\* ---------------------------------------------------------------- state
VARIABLES
    pc,                \* "start", "bootstrap", "seeding", "idle", "polling",
                       \* "processing", "crashed"
    directory,         \* history: the search outcome of each input name
    channel_ids,       \* ordered dict name -> channel id: <<name, id>> pairs
    idx,               \* position of the running for-loop in channel_ids
    cycles,            \* poll passes started
    latest_video_ids,  \* Service.latest_video_ids
    files,             \* temporary files that exist on disk
    crashCause,        \* the uncaught exception that ended the process
    inflight,          \* <<channel, item>> of pipeline runs called, not back
    lastEval,          \* what the most recent loop iteration did
    lastObs,           \* history: channel -> last item id observed
    excess,            \* history: channel -> Changed results of polls minus
                       \* value transitions seen by polls
    track,             \* are the counting history variables kept?
    evals,             \* counted: channel -> evaluations in this poll pass
    writes,            \* counted: channel -> entry writes in this poll pass
    runCount           \* counted: <<channel, item>> -> pipeline triggers

vars == <<pc, directory, channel_ids, idx, cycles, latest_video_ids, files,
          crashCause, inflight, lastEval, lastObs, excess, track, evals,
          writes, runCount>>

NoEval ==
    [kind |-> "none", pos |-> 0, chan |-> 0, obs |-> NoneId,
     result |-> "none",
     before |-> EmptyMap, prevObs |-> NoneId, prevResult |-> "other",
     prevFailed |-> FALSE, ran |-> FALSE, run |-> NoRun,
     sent |-> FALSE, body |-> NoBody, delivered |-> FALSE]

\* The state after Service() and before get_Mail_On_Latest_Videos.
InitService ==
    /\ pc = "start"
    /\ directory = [n \in Names |-> NoneId]
    /\ channel_ids = << >>
    /\ idx = 1
    /\ cycles = 0
    /\ latest_video_ids = EmptyMap
    /\ files = {}
    /\ crashCause = "none"
    /\ inflight = {}
    /\ lastEval = NoEval
    /\ lastObs = [c \in Chans |-> NoneId]
    /\ excess = [c \in Chans |-> 0]
    /\ evals = [c \in Chans |-> 0]
    /\ writes = [c \in Chans |-> 0]
    /\ runCount = [c \in Chans |-> [v \in Videos |-> 0]]

Init == InitService /\ track = FALSE

\* The same program with the counting history variables kept.
InitCounted == InitService /\ track = TRUE

\* ------------------------------------------------------------ resolution
\* getChannelIDs: names are searched in input order; a name with a search
\* result of the same title (case-insensitive) gets that result's channel
\* id, any other name gets no entry.  dir[n] is the directory's answer for
\* name n (NoneId: no matching result).
RECURSIVE ResolveFrom(_, _)
ResolveFrom(n, dir) ==
    IF n > MaxNames THEN << >>
    ELSE (IF dir[n] # NoneId THEN << <<n, dir[n]>> >> ELSE << >>)
         \o ResolveFrom(n + 1, dir)

\* Variant: without a title match the first search result is taken.
getChannelIDs_FirstResult(dir) ==
    ResolveFrom(1, [n \in Names |-> IF dir[n] = NoneId THEN 1 ELSE dir[n]])

getChannelIDs(dir) == ResolveFrom(1, dir)

\* Outcome of the search for one name: the request raises, no result has
\* the name as title, or the channel id of the matching result.
SearchOutcomes == {SourceRaises, NoneId} \cup Chans

\* ------------------------------------------------------ change detection
\* Variant: the comparison with the stored id is missing.
Detection_AlwaysChanged(m, c, x) ==
    IF c \in DOMAIN m THEN "Changed" ELSE "FirstSeen"

\* The decision of check_for_new_videos for an item id x of channel c.
Detection(m, c, x) ==
    IF c \in DOMAIN m
    THEN IF m[c] # x THEN "Changed" ELSE "Unchanged"
    ELSE "FirstSeen"

\* Variant: the else-branch of line 219 is missing.
StoreAfterPoll_NoFirstSeen(m, c, x) ==
    IF c \in DOMAIN m
    THEN IF m[c] # x THEN Put(m, c, x) ELSE m
    ELSE m

\* Variant: a detected change does not write the new id.
StoreAfterPoll_KeepOld(m, c, x) ==
    IF c \in DOMAIN m THEN m ELSE Put(m, c, x)

\* latest_video_ids after that decision.
StoreAfterPoll(m, c, x) ==
    IF c \in DOMAIN m
    THEN IF m[c] # x THEN Put(m, c, x) ELSE m
    ELSE Put(m, c, x)

\* Does the decision run the pipeline and the notifier?
Triggers(r) == r = "Changed"

\* ------------------------------------------------------- loop iterations
\* The uncaught exception unwinds the for-loop, the scheduled job,
\* schedule.run_pending() and the while-loop of get_Mail_On_Latest_Videos.
Crash(cause) ==
    /\ pc' = "crashed"
    /\ crashCause' = cause
    /\ UNCHANGED idx

Continue ==
    /\ idx' = idx + 1
    /\ UNCHANGED <<pc, crashCause>>

\* Variant: the pipeline is started in the background and the loop goes on.
AfterTrigger_Async(kind) == IF kind = "poll" THEN "polling" ELSE "bootstrap"

\* The calls at lines 217-218 and 228-229 are synchronous: the loop that
\* makes them waits for their return.  The position of a loop that has
\* called the pipeline for an item:
AfterTrigger(kind) == IF kind = "poll" THEN "processing" ELSE "seeding"

\* The position of that loop once the calls are back.
Resume(p) == IF p = "processing" THEN "polling" ELSE "bootstrap"

\* What lastEval says of the iteration before: its result and whether its
\* delivery failed, when it was an iteration for the same channel c.
PrevResult(c) == IF lastEval.chan = c THEN lastEval.result ELSE "other"
PrevFailed(c) ==
    lastEval.chan = c /\ lastEval.sent /\ ~lastEval.delivered

\* The iteration has written the store and calls the pipeline for item x of
\* channel c.
Begin(kind, res, c, x) ==
    /\ lastEval' = [kind |-> kind, pos |-> idx, chan |-> c, obs |-> x,
                    result |-> res, before |-> latest_video_ids,
                    prevObs |-> lastObs[c], prevResult |-> PrevResult(c),
                    prevFailed |-> PrevFailed(c),
                    ran |-> TRUE, run |-> NoRun,
                    sent |-> FALSE, body |-> NoBody, delivered |-> FALSE]
    /\ runCount' = IF track
                   THEN [runCount EXCEPT ![c][x] = @ + 1]
                   ELSE runCount
    /\ inflight' = inflight \cup {<<c, x>>}
    /\ pc' = AfterTrigger(kind)
    /\ UNCHANGED <<idx, crashCause, files>>

\* Pipeline run followed by the notification, as both loops do it
\* (lines 217-218 and 228-229), for the item the iteration began with.
ProcessAndNotify(run, smtp) ==
    LET x   == lastEval.obs
        msg == send_email_notification(x, run.transcript, run.summary, smtp)
    IN
    /\ files' = run.files
    /\ inflight' = inflight \ {<<lastEval.chan, x>>}
    /\ IF run.raised
       THEN /\ Crash(run.cause)
            /\ lastEval' = [lastEval EXCEPT !.run = run]
       ELSE IF msg.raised
       THEN /\ Crash("smtp")
            /\ lastEval' = [lastEval EXCEPT !.run = run, !.sent = TRUE,
                                            !.body = msg.body]
       ELSE /\ idx' = idx + 1
            /\ pc' = Resume(pc)
            /\ UNCHANGED crashCause
            /\ lastEval' = [lastEval EXCEPT !.run = run, !.sent = TRUE,
                                            !.body = msg.body,
                                            !.delivered = msg.delivered]

\* An iteration that runs no pipeline.
Quiet(kind, res, c, x) ==
    /\ lastEval' = [kind |-> kind, pos |-> idx, chan |-> c, obs |-> x,
                    result |-> res,
                    before |-> latest_video_ids, prevObs |-> lastObs[c],
                    prevResult |-> PrevResult(c),
                    prevFailed |-> PrevFailed(c), ran |-> FALSE, run |-> NoRun,
                    sent |-> FALSE, body |-> NoBody, delivered |-> FALSE]
    /\ UNCHANGED <<files, runCount, inflight>>

\* get_Mail_On_Latest_Videos, line 223.  request.execute() is not in a
\* try: a search that raises ends the process.
Resolve ==
    /\ pc = "start"
    /\ \E dir \in [Names -> SearchOutcomes] :
          /\ directory' = dir
          /\ IF \E n \in Names : dir[n] = SourceRaises
             THEN /\ pc' = "crashed"
                  /\ crashCause' = "search"
                  /\ UNCHANGED channel_ids
             ELSE /\ pc' = "bootstrap"
                  /\ channel_ids' = getChannelIDs(dir)
                  /\ UNCHANGED crashCause
    /\ idx' = 1
    /\ UNCHANGED <<cycles, latest_video_ids, files, inflight, lastEval,
                   lastObs, excess, track, evals, writes, runCount>>

\* One iteration of the bootstrap loop, lines 224-227, up to the call of
\* the pipeline.
BootstrapEval ==
    /\ pc = "bootstrap"
    /\ idx <= Len(channel_ids)
    /\ \E src \in SourceOutcomes :
          LET c == channel_ids[idx][2] IN
          IF src = SourceRaises
          THEN /\ Crash("get_latest_video")
               /\ Quiet("bootstrap", "SourceError", c, NoneId)
               /\ UNCHANGED <<latest_video_ids, lastObs>>
          ELSE IF src = NoneId
          THEN /\ Continue
               /\ Quiet("bootstrap", "NoItem", c, NoneId)
               /\ UNCHANGED <<latest_video_ids, lastObs>>
          ELSE /\ latest_video_ids' = Put(latest_video_ids, c, src)
               /\ lastObs' = [lastObs EXCEPT ![c] = src]
               /\ Begin("bootstrap", "Seed", c, src)
    /\ UNCHANGED <<directory, channel_ids, cycles, excess, track, evals,
                   writes>>

\* Line 232: the job is registered once the bootstrap loop is over.
Schedule ==
    /\ pc = "bootstrap"
    /\ idx > Len(channel_ids)
    /\ pc' = "idle"
    /\ UNCHANGED <<directory, channel_ids, idx, cycles, latest_video_ids,
                   files, crashCause, inflight, lastEval, lastObs, excess,
                   track, evals, writes, runCount>>

\* schedule.run_pending() finds the job due and calls check_for_new_videos.
PollStart ==
    /\ pc = "idle"
    /\ cycles < MaxCycles
    /\ pc' = "polling"
    /\ idx' = 1
    /\ cycles' = cycles + 1
    /\ UNCHANGED <<directory, channel_ids, latest_video_ids, files,
                   crashCause, inflight, lastEval, lastObs, excess, track,
                   evals, writes, runCount>>

\* 1 when the condition holds, else 0.
Count(b) == IF b THEN 1 ELSE 0

\* One iteration of check_for_new_videos, lines 211-220, up to the call of
\* the pipeline when there is one.
PollEval ==
    /\ pc = "polling"
    /\ idx <= Len(channel_ids)
    /\ \E src \in SourceOutcomes :
          LET c == channel_ids[idx][2]
              r == Detection(latest_video_ids, c, src)
              m == StoreAfterPoll(latest_video_ids, c, src)
          IN
          /\ evals' = IF track THEN [evals EXCEPT ![c] = @ + 1] ELSE evals
          /\ IF src = SourceRaises
             THEN /\ Crash("get_latest_video")
                  /\ Quiet("poll", "SourceError", c, NoneId)
                  /\ UNCHANGED <<latest_video_ids, lastObs, writes, excess>>
             ELSE IF src = NoneId
             THEN /\ Continue
                  /\ Quiet("poll", "NoItem", c, NoneId)
                  /\ UNCHANGED <<latest_video_ids, lastObs, writes, excess>>
             ELSE /\ latest_video_ids' = m
                  /\ writes' = IF track /\ m # latest_video_ids
                               THEN [writes EXCEPT ![c] = @ + 1]
                               ELSE writes
                  /\ lastObs' = [lastObs EXCEPT ![c] = src]
                  /\ excess' =
                        [excess EXCEPT ![c] =
                            @ + Count(r = "Changed")
                              - Count(c \in DOMAIN latest_video_ids
                                         /\ lastObs[c] # src)]
                  /\ IF Triggers(r)
                     THEN Begin("poll", r, c, src)
                     ELSE /\ Continue
                          /\ Quiet("poll", r, c, src)
    /\ UNCHANGED <<directory, channel_ids, cycles, track>>

\* Lines 217-218 and 228-229: the pipeline runs for the item the iteration
\* began with, then the notification is sent, then the loop goes on.
Process ==
    /\ pc \in {"seeding", "processing"}
    /\ \E run \in PipelineRuns(files), smtp \in BOOLEAN :
          ProcessAndNotify(run, smtp)
    /\ UNCHANGED <<directory, channel_ids, cycles, latest_video_ids, lastObs,
                   excess, track, evals, writes, runCount>>

\* check_for_new_videos returns; the while-loop sleeps until the job is due.
\* The pass is over: its counts start again.
PollEnd ==
    /\ pc = "polling"
    /\ idx > Len(channel_ids)
    /\ pc' = "idle"
    /\ evals' = [c \in Chans |-> 0]
    /\ writes' = [c \in Chans |-> 0]
    /\ UNCHANGED <<directory, channel_ids, idx, cycles, latest_video_ids,
                   files, crashCause, inflight, lastEval, lastObs, excess,
                   track, runCount>>

Next ==
    \/ Resolve
    \/ BootstrapEval
    \/ Schedule
    \/ PollStart
    \/ PollEval
    \/ Process
    \/ PollEnd

Spec == Init /\ [][Next]_vars

SpecCounted == InitCounted /\ [][Next]_vars

TypeOK ==
    /\ pc \in {"start", "bootstrap", "seeding", "idle", "polling",
              "processing", "crashed"}
    /\ DOMAIN latest_video_ids \subseteq Chans
    /\ \A c \in DOMAIN latest_video_ids : latest_video_ids[c] \in Videos
    /\ files \subseteq {VideoFile, AudioFile}
    /\ cycles \in 0..MaxCycles

\* ======================================================= properties

\* The iteration lastEval describes has called the pipeline and the calls
\* of lines 217-218 / 228-229 are not back yet.
InFlight == pc \in {"seeding", "processing"}

\* C1: in a poll pass, for a channel whose latest item id x is not None:
\* key absent -> x recorded, no pipeline, no notifier; stored id = x -> map
\* unchanged, no pipeline, no notifier; stored id # x -> stored id becomes x
\* and the pipeline and the notifier are invoked.
C1_PollDecision ==
    (lastEval.kind = "poll" /\ lastEval.obs # NoneId /\ ~InFlight) =>
        LET m == lastEval.before
            c == lastEval.chan
            x == lastEval.obs
        IN
        /\ (c \notin DOMAIN m) =>
              /\ latest_video_ids = Put(m, c, x)
              /\ ~lastEval.ran /\ ~lastEval.sent
        /\ (c \in DOMAIN m /\ m[c] = x) =>
              /\ latest_video_ids = m
              /\ ~lastEval.ran /\ ~lastEval.sent
        /\ (c \in DOMAIN m /\ m[c] # x) =>
              /\ latest_video_ids = Put(m, c, x)
              /\ lastEval.ran /\ lastEval.sent

\* C2: at-most-once processing: over bootstrap and poll cycles the pipeline
\* (and with it the notification) is triggered at most once for any item id
\* of a channel.  Stated over SpecCounted, which keeps runCount.
C2_AtMostOncePerItem ==
    \A c \in Chans : \A v \in Videos : runCount[c][v] <= 1

\* C3: for the observations polls make of a channel that has a baseline, the
\* number of Changed results equals the number of observations that differ
\* from the previously observed id: their difference is zero.
C3_ChangedEqualsTransitions ==
    \A c \in Chans : excess[c] = 0

\* C3 witness: a channel was detected as Changed and is then observed again
\* with the same id, an observation that counts as no transition.
C3_Witness ==
    /\ lastEval.kind = "poll"
    /\ lastEval.result = "Unchanged"
    /\ lastEval.prevResult = "Changed"
    /\ cycles = MaxCycles

C5_ChangedNotifiesOnce ==
    /\ (lastEval.kind = "poll" /\ lastEval.result = "Changed"
           /\ ~InFlight) =>
          /\ lastEval.ran
          /\ lastEval.sent
          /\ lastEval.body.title = lastEval.obs
          /\ lastEval.body.url = lastEval.obs
    /\ (lastEval.kind = "poll" /\ lastEval.result = "Unchanged") =>
          /\ ~lastEval.ran
          /\ ~lastEval.sent

\* C6: cleanup guarantee: when a pipeline invocation returns, no temporary
\* file it created still exists.
C6_CleanupGuarantee ==
    (lastEval.ran /\ ~lastEval.run.raised) => lastEval.run.leftover = {}

\* C7: a failure of the latest-item lookup of one channel does not abort the
\* poll cycle.
C7_SourceFailureContained ==
    (lastEval.kind = "poll" /\ lastEval.result = "SourceError") =>
        pc # "crashed"

\* C8: when the fetch stage fails for a newly detected item, the pass goes
\* on to the next channel, the channel's entry holds the new id, and the
\* same id is not detected as Changed again.
C8_StageContainment ==
    [][(pc = "processing" /\ lastEval'.result = "Changed"
           /\ lastEval'.run.stages = <<"fetch">>) =>
          /\ pc' = "polling"
          /\ idx' = idx + 1
          /\ lastEval'.chan \in DOMAIN latest_video_ids'
          /\ latest_video_ids'[lastEval'.chan] = lastEval'.obs
          /\ Detection(latest_video_ids', lastEval'.chan, lastEval'.obs)
                = "Unchanged"]_vars

\* C8 witness: a detected change whose download failed, pass still running.
C8_Witness ==
    /\ lastEval.kind = "poll"
    /\ lastEval.result = "Changed"
    /\ lastEval.run.stages = <<"fetch">>
    /\ lastEval.run.errors = {"fetch"}
    /\ pc = "polling"
    /\ idx = lastEval.pos + 1

\* C9: no stage-level error leaves its stage: after every pipeline run the
\* polling loop is still running.
C9_NoStageErrorPropagates ==
    lastEval.ran => (~lastEval.run.raised /\ pc # "crashed")

C11_DegradedNotification ==
    lastEval.sent =>
        /\ lastEval.body.title = lastEval.obs
        /\ lastEval.body.url = lastEval.obs
        /\ Truthy(lastEval.run.summary) =>
              lastEval.body.summary = lastEval.run.summary
        /\ ("summarize" \in lastEval.run.errors
               /\ Truthy(lastEval.run.transcript)) =>
              lastEval.body.transcript = lastEval.run.transcript

\* C18: at no time are two pipeline runs in flight: a run triggered by a
\* detection (with its notification) is back before any other evaluation
\* can trigger one, so the run in flight is always that of the latest
\* detection and runs happen in detection order.
C18_PerChannelOrdering ==
    /\ Cardinality(inflight) <= 1
    /\ inflight # {} =>
          /\ InFlight
          /\ inflight = {<<lastEval.chan, lastEval.obs>>}
    /\ ~InFlight => inflight = {}

\* C18 witness: the run of a channel's second detected change is in flight,
\* the run of its first one being back.
C18_Witness ==
    /\ pc = "processing"
    /\ inflight = {<<lastEval.chan, lastEval.obs>>}
    /\ lastEval.result = "Changed"
    /\ lastEval.prevResult = "Changed"

\* C12: for each resolved channel that has a latest item, the bootstrap
\* pass sets the channel's entry to that item, runs the pipeline and sends
\* one notification for it, before any poll cycle starts; and a poll that
\* then observes the same item is Unchanged and sends nothing.
C12_BootstrapSeeding ==
    /\ (lastEval.kind = "bootstrap" /\ lastEval.obs # NoneId
           /\ ~InFlight) =>
          /\ lastEval.chan \in DOMAIN latest_video_ids
          /\ latest_video_ids[lastEval.chan] = lastEval.obs
          /\ lastEval.ran
          /\ lastEval.sent
          /\ lastEval.body.title = lastEval.obs
          /\ cycles = 0
    /\ (lastEval.kind = "poll" /\ lastEval.obs # NoneId
           /\ lastEval.prevObs = lastEval.obs) =>
          /\ lastEval.result = "Unchanged"
          /\ ~lastEval.sent

\* The names that resolved, and the channel ids they resolved to.
Resolved == {n \in Names : directory[n] \in Chans}
ResolvedIds == {directory[n] : n \in Resolved}

\* C13: a name without a matching search result is dropped and does not
\* abort the run: the resolved mapping has one entry per resolving name (one
\* entry when exactly one of two names resolves), and seeding, pipeline
\* runs, notifications and polls involve resolved channels only.
C13_BootstrapResolution ==
    /\ (pc = "crashed" /\ crashCause = "search") =>
          \E n \in Names : directory[n] = SourceRaises
    /\ (pc # "start" /\ crashCause # "search") =>
          /\ Len(channel_ids) = Cardinality(Resolved)
          /\ \A i \in 1..Len(channel_ids) :
                /\ channel_ids[i][1] \in Resolved
                /\ channel_ids[i][2] = directory[channel_ids[i][1]]
          /\ DOMAIN latest_video_ids \subseteq ResolvedIds
          /\ lastEval.kind # "none" => lastEval.chan \in ResolvedIds
          /\ \A p \in inflight : p[1] \in ResolvedIds

\* C13 witness: one of the names resolved, the other did not, and a poll
\* has notified for the resolved channel.
C13_Witness ==
    /\ Cardinality(Resolved) = 1
    /\ Len(channel_ids) = 1
    /\ lastEval.kind = "poll"
    /\ lastEval.sent
    /\ lastEval.chan \in ResolvedIds

\* C14: when the delivery of the notification for a detected item fails,
\* the loop goes on to the next channel with the item recorded as the
\* channel's last-seen id, and a later poll that finds the same item still
\* the latest does not run the pipeline or attempt delivery again.
C14_DeliveryFailure ==
    [][/\ (InFlight /\ lastEval'.sent /\ ~lastEval'.delivered) =>
             /\ pc' = Resume(pc)
             /\ idx' = idx + 1
             /\ lastEval'.chan \in DOMAIN latest_video_ids'
             /\ latest_video_ids'[lastEval'.chan] = lastEval'.obs
       /\ (lastEval'.kind = "poll" /\ lastEval'.obs # NoneId
              /\ lastEval'.obs = lastEval'.prevObs) =>
             /\ lastEval'.result = "Unchanged"
             /\ ~lastEval'.ran
             /\ ~lastEval'.sent
             /\ latest_video_ids' = lastEval'.before]_vars

\* C14 witness: the only monitored channel changed in the first poll pass,
\* the delivery failed, and the second pass finds the same item still the
\* latest and attempts nothing.
C14_Witness ==
    /\ lastEval.kind = "poll"
    /\ lastEval.prevFailed
    /\ lastEval.prevResult = "Changed"
    /\ lastEval.obs = lastEval.prevObs
    /\ lastEval.result = "Unchanged"
    /\ Len(channel_ids) = 1
    /\ cycles = 2

\* The channel ids the loops iterate over.
Monitored == {channel_ids[i][2] : i \in 1..Len(channel_ids)}

\* C15: within one poll pass each monitored channel is evaluated exactly
\* once and the entry of a channel id is written at most once, whatever the
\* resolved mapping.  Stated over SpecCounted, which keeps evals and writes.
C15_PollCycleBoundary ==
    /\ \A c \in Chans : evals[c] <= 1
    /\ \A c \in Chans : writes[c] <= 1
    /\ (pc = "polling" /\ idx > Len(channel_ids)) =>
          \A c \in Monitored : evals[c] = 1

\* C16: a channel id is a key of latest_video_ids if and only if an item of
\* that channel has been observed, at bootstrap or in a poll; a channel
\* whose lookups have all returned no item is not a key.
C16_DedupMapInvariant ==
    \A c \in Chans : (c \in DOMAIN latest_video_ids) <=> (lastObs[c] # NoneId)

\* C16 witness: a channel first seen by a poll is a key, and a monitored
\* channel that never showed an item is not.
C16_Witness ==
    /\ lastEval.result = "FirstSeen"
    /\ lastEval.chan \in DOMAIN latest_video_ids
    /\ \E c \in Monitored : c \notin DOMAIN latest_video_ids
    /\ pc = "polling"
    /\ idx > Len(channel_ids)

\* The order of the pipeline's stages.
StageOrder == <<"fetch", "extract", "transcribe", "summarize">>

\* C17: the stages of a run are invoked in the order fetch, extract,
\* transcribe, summarize, and no stage is invoked after a failed one.
C17_StageSequencing ==
    LET st == lastEval.run.stages
        er == lastEval.run.errors
    IN
    /\ Len(st) <= Len(StageOrder)
    /\ \A i \in 1..Len(st) : st[i] = StageOrder[i]
    /\ "fetch" \in er => st = <<"fetch">>
    /\ "extract" \in er => st = <<"fetch", "extract">>
    /\ ("transcribe" \in er \/ lastEval.run.cause = "load_model") =>
          st = <<"fetch", "extract", "transcribe">>

\* C17 witness: a run whose transcription failed and that stopped there.
C17_Witness ==
    /\ lastEval.ran
    /\ ~lastEval.run.raised
    /\ lastEval.run.errors = {"transcribe"}
    /\ lastEval.run.stages = <<"fetch", "extract", "transcribe">>

\* C19: after an evaluation that found item x, latest_video_ids[channel] is
\* x; an evaluation that finds no item leaves the map as it was and triggers
\* no pipeline and no notification; no step removes a key.
C19_TracksLatestObservation ==
    [][/\ DOMAIN latest_video_ids \subseteq DOMAIN latest_video_ids'
       /\ lastEval'.obs # NoneId =>
             /\ lastEval'.chan \in DOMAIN latest_video_ids'
             /\ latest_video_ids'[lastEval'.chan] = lastEval'.obs
       /\ lastEval'.result = "NoItem" =>
             /\ latest_video_ids' = lastEval'.before
             /\ (lastEval' # lastEval) => latest_video_ids' = latest_video_ids
             /\ ~lastEval'.ran
             /\ ~lastEval'.sent]_vars

\* C19 witness: a poll finds no item for a channel while both channels have
\* an entry.
C19_Witness ==
    /\ lastEval.kind = "poll"
    /\ lastEval.result = "NoItem"
    /\ Cardinality(DOMAIN latest_video_ids) = 2
    /\ lastEval.chan \in DOMAIN latest_video_ids
    /\ cycles = 2

====
